---- MODULE Spec2Model ----
(***************************************************************************)
(* Trajectory cleaning run of P1_data_statistics_traj_cleaning:            *)
(* p2_traj_cleaning.py drives the cleaning engine (sb.AISCleanGenius) over *)
(* the raw AIS table, records one row-count snapshot per stage and then    *)
(* builds the diagnostics tables and the report.  The engine itself is not *)
(* part of the sources; its stages are written here from sections 4.1-4.5  *)
(* of the specification.                                                   *)
(*                                                                         *)
(* A row is [id, mmsi, timeUtc, lon, lat]; id is the row's index in the    *)
(* loaded table.  Coordinates are whole grid units, distances are          *)
(* |dlon| + |dlat| in the same units, timestamps are whole seconds.        *)
(***************************************************************************)
EXTENDS Integers, Sequences, FiniteSets, TLC

VARIABLES
    df_raw,              \* the loaded raw table (p2 line 156)
    steps,               \* the configured stage list (p2 lines 164-169)
    cleaner_data,        \* cleaner.data
    stage_in,            \* cleaner.data as the last clean() call received it
    step_records,        \* the Pipeline Run snapshots (p2 lines 170-201)
    step_i,              \* position of the step loop in steps
    df_cleaned,          \* p2 lines 203-205
    raw_interval_df,     \* p2 line 207
    cleaned_interval_df, \* p2 line 208
    mmsi_row_change_df,  \* p2 line 209
    report,              \* the totals of _format_diagnostics_report
    raw_summary,         \* the numbers of p1_raw_data_inspection's summary
    cleaned_summary,     \* the numbers of p3_cleaned_data_inspection's summary
    pc,                  \* where the scripts are
    err                  \* the exception that ended p2_traj_cleaning, "none" otherwise

vars == <<df_raw, steps, cleaner_data, stage_in, step_records, step_i, df_cleaned,
          raw_interval_df, cleaned_interval_df, mmsi_row_change_df, report,
          raw_summary, cleaned_summary, pc, err>>

----------------------------------------------------------------------------
(* Bounds of the model *)

MaxRows == 3

----------------------------------------------------------------------------
(* Missing values and thresholds *)

\* pd.to_datetime(errors="coerce") turns an unparseable timestamp into NaT
NaT == 0

\* a missing mmsi
NaN == 0

\* a missing coordinate
NoCoord == 1000

\* valid geographic bounds, section 4.2
LonLimit == 180

LatLimit == 90

\* Stage 2: displacement below which two fixes count as the same place
JitterDist == 2

\* Stage 2: fixes a stationary run needs to count as sustained
JitterRunLen == 3

\* Stage 4: largest plausible implied speed, grid units per second
MaxSpeed == 4

\* Stage 3: implied speed above which a leg counts as a spike
DriftSpeed == 4

----------------------------------------------------------------------------
(* Generic helpers *)

Abs(x) == IF x < 0 THEN -x ELSE x

Range(s) == {s[i] : i \in 1..Len(s)}

RECURSIVE SumOver(_, _)
SumOver(S, f) ==
    IF S = {} THEN 0
    ELSE LET x == CHOOSE y \in S : TRUE IN f[x] + SumOver(S \ {x}, f)

Ids(data) == {data[i].id : i \in 1..Len(data)}

----------------------------------------------------------------------------
(* Sorting as DataFrame.sort_values(["mmsi", "timeUtc"]) does it: ascending, *)
(* missing keys last, rows with equal keys in their previous order.          *)

\* a missing key sorts after every value (na_position = "last")
MmsiKey(r) == IF r.mmsi = NaN THEN 1 ELSE 0

TimeKey(r) == IF r.timeUtc = NaT THEN 1 ELSE 0

\* KeyLess with the timestamps of a vessel descending
KeyLessTimeDescending(a, b) ==
    \/ MmsiKey(a) < MmsiKey(b)
    \/ MmsiKey(a) = MmsiKey(b) /\ a.mmsi < b.mmsi
    \/ /\ MmsiKey(a) = MmsiKey(b)
       /\ a.mmsi = b.mmsi
       /\ \/ TimeKey(a) < TimeKey(b)
          \/ TimeKey(a) = TimeKey(b) /\ a.timeUtc > b.timeUtc

KeyLess(a, b) ==
    \/ MmsiKey(a) < MmsiKey(b)
    \/ MmsiKey(a) = MmsiKey(b) /\ a.mmsi < b.mmsi
    \/ /\ MmsiKey(a) = MmsiKey(b)
       /\ a.mmsi = b.mmsi
       /\ \/ TimeKey(a) < TimeKey(b)
          \/ TimeKey(a) = TimeKey(b) /\ a.timeUtc < b.timeUtc

\* r goes behind every row that is not greater than it
InsertRow(s, r) ==
    LET k == Cardinality({i \in 1..Len(s) : ~KeyLess(r, s[i])})
    IN SubSeq(s, 1, k) \o <<r>> \o SubSeq(s, k + 1, Len(s))

RECURSIVE SortValues(_)
SortValues(s) ==
    IF s = <<>> THEN <<>>
    ELSE InsertRow(SortValues(SubSeq(s, 1, Len(s) - 1)), s[Len(s)])

\* the mmsi values groupby("mmsi") makes groups for: missing keys form no group
Vessels(data) == {data[i].mmsi : i \in 1..Len(data)} \ {NaN}

\* one vessel's rows, in the table's order
Traj(data, m) == SelectSeq(data, LAMBDA r : r.mmsi = m)

----------------------------------------------------------------------------
(* The cleaning engine, sections 4.1 to 4.5 of the specification *)

\* 4.1 Ingestion Partitioner: rows without a vessel are excluded, the rest is
\* grouped by vessel and sorted by timestamp, ties in input order
Partition(df) == SortValues(SelectSeq(df, LAMBDA r : r.mmsi # NaN))

ValidCoord(r) ==
    /\ r.lon # NoCoord /\ r.lat # NoCoord
    /\ r.lon >= -LonLimit /\ r.lon <= LonLimit
    /\ r.lat >= -LatLimit /\ r.lat <= LatLimit

ValidTime(r) == r.timeUtc # NaT

\* displacement between two fixes with coordinates
Dist(a, b) == Abs(a.lon - b.lon) + Abs(a.lat - b.lat)

\* elapsed time is defined only between valid timestamps and only when positive
Elapsed(a, b) ==
    IF ValidTime(a) /\ ValidTime(b) /\ b.timeUtc > a.timeUtc
    THEN b.timeUtc - a.timeUtc ELSE 0

\* implied speed from a to b is defined and above limit
Faster(a, b, limit) ==
    /\ ValidCoord(a) /\ ValidCoord(b)
    /\ Elapsed(a, b) > 0
    /\ Dist(a, b) > limit * Elapsed(a, b)

\* BasicKeep keeping the last row of a repeated key instead of the first
BasicKeepLast(t) ==
    {i \in 1..Len(t) :
        /\ ValidTime(t[i])
        /\ ValidCoord(t[i])
        /\ \A j \in (i + 1)..Len(t) : t[j].timeUtc # t[i].timeUtc}

\* BasicKeep as a filter on a positive difference to the fix before, which the
\* first fix of a trajectory does not have
BasicKeepDiffPositive(t) ==
    {i \in 1..Len(t) :
        /\ ValidTime(t[i])
        /\ ValidCoord(t[i])
        /\ i > 1
        /\ ValidTime(t[i - 1])
        /\ t[i].timeUtc > t[i - 1].timeUtc}

\* 4.2 Stage 1: the indices of a trajectory that survive the validity filter
BasicKeep(t) ==
    {i \in 1..Len(t) :
        /\ ValidTime(t[i])
        /\ ValidCoord(t[i])
        /\ \A j \in 1..(i - 1) : t[j].timeUtc # t[i].timeUtc}

\* 4.3 Stage 2: the index of the representative of the stationary run fix i is in
RECURSIVE RunStart(_, _)
RunStart(t, i) ==
    IF i = 1 THEN 1
    ELSE LET a == RunStart(t, i - 1)
         IN IF /\ ValidCoord(t[i]) /\ ValidCoord(t[i - 1]) /\ ValidCoord(t[a])
               /\ Dist(t[i - 1], t[i]) < JitterDist
               /\ Dist(t[a], t[i]) < JitterDist
            THEN a ELSE i

RunLen(t, a) == Cardinality({i \in 1..Len(t) : RunStart(t, i) = a})

\* DriftKeep without the rule that protects the trajectory's last fix
DriftKeepNoBoundary(t) ==
    {i \in 1..Len(t) :
        \/ Len(t) < 2
        \/ i = 1
        \/ RunStart(t, i) = i
        \/ RunLen(t, RunStart(t, i)) < JitterRunLen}

\* DriftKeep taking a run of exactly JitterRunLen fixes as not yet sustained
DriftKeepShortRun(t) ==
    {i \in 1..Len(t) :
        \/ Len(t) < 2
        \/ i = 1
        \/ i = Len(t)
        \/ RunStart(t, i) = i
        \/ RunLen(t, RunStart(t, i)) <= JitterRunLen}

\* 4.3 Stage 2: a sustained run keeps its first fix; the first and the last fix
\* of the trajectory are never dropped
DriftKeep(t) ==
    {i \in 1..Len(t) :
        \/ Len(t) < 2
        \/ i = 1
        \/ i = Len(t)
        \/ RunStart(t, i) = i
        \/ RunLen(t, RunStart(t, i)) < JitterRunLen}

\* 4.4 Stage 3: an interior fix with a spike on both legs while its neighbours
\* agree with each other is dropped
BidirKeep(t) ==
    {i \in 1..Len(t) :
        ~ /\ 1 < i /\ i < Len(t)
          /\ Faster(t[i - 1], t[i], DriftSpeed)
          /\ Faster(t[i], t[i + 1], DriftSpeed)
          /\ ~Faster(t[i - 1], t[i + 1], DriftSpeed)}

\* 4.5 Stage 4, iterative: each fix is compared with the last fix that survived
RECURSIVE SpeedScan(_, _, _)
SpeedScan(t, i, last) ==
    IF i > Len(t) THEN {}
    ELSE IF last # 0 /\ Faster(t[last], t[i], MaxSpeed)
         THEN SpeedScan(t, i + 1, last)
         ELSE {i} \cup SpeedScan(t, i + 1, i)

\* SpeedKeep in a single pass: each fix is compared with the fix before it in
\* the input, removed or not
SpeedKeepSinglePass(t) ==
    {i \in 1..Len(t) : i = 1 \/ ~Faster(t[i - 1], t[i], MaxSpeed)}

SpeedKeep(t) == SpeedScan(t, 1, 0)

StageNames == {"basic", "tbd_drift", "bidirectional_speed_drift", "speed_anomalies"}

KeepOf(method, t) ==
    CASE method = "basic" -> BasicKeep(t)
      [] method = "tbd_drift" -> DriftKeep(t)
      [] method = "bidirectional_speed_drift" -> BidirKeep(t)
      [] method = "speed_anomalies" -> SpeedKeep(t)

\* the ids of the rows a stage keeps, vessel by vessel
KeptIds(method, data) ==
    UNION {LET t == Traj(data, m)
           IN {t[i].id : i \in KeepOf(method, t)} : m \in Vessels(data)}

\* cleaner.clean(method = ...): the rows the stage keeps, in the table's order
Clean(method, data) ==
    LET keep == KeptIds(method, data)
    IN SelectSeq(data, LAMBDA r : r.id \in keep)

----------------------------------------------------------------------------
(* Numbers the scripts compute as floats are kept as exact fractions *)

Frac(n, d) == [num |-> n, den |-> d]

FracLess(a, b) == a.num * b.den < b.num * a.den

\* Pct without the test of the denominator
PctUnguarded(x, y) == Frac(x * 100, y)

\* x / y * 100.0 if y else 0.0
Pct(x, y) == IF y # 0 THEN Frac(x * 100, y) ELSE Frac(0, 1)

----------------------------------------------------------------------------
(* p2_traj_cleaning.py: _compute_interval_table *)

\* PositiveIntervals with >= 0 in place of > 0
NonNegativeIntervals(t) ==
    LET idx == {i \in 2..Len(t) :
                   /\ t[i].timeUtc # NaT /\ t[i - 1].timeUtc # NaT
                   /\ t[i].timeUtc - t[i - 1].timeUtc >= 0}
        nth[k \in 1..Cardinality(idx)] ==
            CHOOSE i \in idx : Cardinality({j \in idx : j < i}) = k - 1
    IN [k \in 1..Cardinality(idx) |-> t[nth[k]].timeUtc - t[nth[k] - 1].timeUtc]

\* groupby("mmsi")["timeUtc"].diff().dt.total_seconds(), then the rows whose
\* interval is not missing and > 0; t is one vessel's rows in sorted order
PositiveIntervals(t) ==
    LET idx == {i \in 2..Len(t) :
                   /\ t[i].timeUtc # NaT /\ t[i - 1].timeUtc # NaT
                   /\ t[i].timeUtc - t[i - 1].timeUtc > 0}
        nth[k \in 1..Cardinality(idx)] ==
            CHOOSE i \in idx : Cardinality({j \in idx : j < i}) = k - 1
    IN [k \in 1..Cardinality(idx) |-> t[nth[k]].timeUtc - t[nth[k] - 1].timeUtc]

RECURSIVE SeqSum(_)
SeqSum(s) == IF s = <<>> THEN 0 ELSE s[1] + SeqSum(Tail(s))

\* the k-th smallest element of a sequence of numbers, k from 1
Ordered(s, k) ==
    CHOOSE v \in Range(s) :
        /\ Cardinality({i \in 1..Len(s) : s[i] < v}) < k
        /\ Cardinality({i \in 1..Len(s) : s[i] <= v}) >= k

\* Series.quantile(q) for q = qn/qd, linear interpolation between order statistics
Quantile(s, qn, qd) ==
    LET pos == qn * (Len(s) - 1)
        lo  == pos \div qd
        fr  == pos % qd
        hi  == IF lo + 2 <= Len(s) THEN lo + 2 ELSE lo + 1
    IN Frac(qd * Ordered(s, lo + 1) + fr * (Ordered(s, hi) - Ordered(s, lo + 1)), qd)

IntervalRow(m, iv) ==
    [mmsi |-> m,
     interval_count |-> Len(iv),
     avg_interval_seconds |-> Frac(SeqSum(iv), Len(iv)),
     median_interval_seconds |-> Quantile(iv, 1, 2),
     p90_interval_seconds |-> Quantile(iv, 9, 10),
     avg_frequency_hz |-> Frac(Len(iv), SeqSum(iv))]

\* rows in ascending order of avg_interval_seconds
RECURSIVE SortByAvg(_)
SortByAvg(s) ==
    IF s = <<>> THEN <<>>
    ELSE LET rest == SortByAvg(SubSeq(s, 1, Len(s) - 1))
             r == s[Len(s)]
             k == Cardinality({i \in 1..Len(rest) :
                     ~FracLess(r.avg_interval_seconds, rest[i].avg_interval_seconds)})
         IN SubSeq(rest, 1, k) \o <<r>> \o SubSeq(rest, k + 1, Len(rest))

\* the elements of a finite set of numbers in ascending order
RECURSIVE Ascending(_)
Ascending(S) ==
    IF S = {} THEN <<>>
    ELSE LET x == CHOOSE y \in S : \A z \in S : y <= z
         IN <<x>> \o Ascending(S \ {x})

_compute_interval_table(df) ==
    LET data == SortValues(SelectSeq(df, LAMBDA r : r.mmsi # NaN /\ r.timeUtc # NaT))
        ms == Ascending({m \in Vessels(data) : Len(PositiveIntervals(Traj(data, m))) > 0})
    IN SortByAvg([k \in 1..Len(ms) |->
                    IntervalRow(ms[k], PositiveIntervals(Traj(data, ms[k])))])

----------------------------------------------------------------------------
(* p2_traj_cleaning.py: _build_mmsi_row_change_table *)

GroupSize(df, m) == Len(Traj(df, m))

RowChangeRow(df_r, df_c, m) ==
    LET raw_rows == GroupSize(df_r, m)
        cleaned_rows == GroupSize(df_c, m)
    IN [mmsi |-> m,
        raw_rows |-> raw_rows,
        cleaned_rows |-> cleaned_rows,
        rows_removed |-> raw_rows - cleaned_rows,
        removed_ratio_pct |-> Pct(raw_rows - cleaned_rows, raw_rows)]

\* RowChangeBefore with ascending = [False, True]
RowChangeBeforeTiesAscending(a, b) ==
    \/ a.rows_removed > b.rows_removed
    \/ a.rows_removed = b.rows_removed /\ a.raw_rows < b.raw_rows

\* sort_values(["rows_removed", "raw_rows"], ascending = [False, False])
RowChangeBefore(a, b) ==
    \/ a.rows_removed > b.rows_removed
    \/ a.rows_removed = b.rows_removed /\ a.raw_rows > b.raw_rows

RECURSIVE SortRowChange(_)
SortRowChange(s) ==
    IF s = <<>> THEN <<>>
    ELSE LET rest == SortRowChange(SubSeq(s, 1, Len(s) - 1))
             r == s[Len(s)]
             k == Cardinality({i \in 1..Len(rest) : ~RowChangeBefore(r, rest[i])})
         IN SubSeq(rest, 1, k) \o <<r>> \o SubSeq(rest, k + 1, Len(rest))

_build_mmsi_row_change_table(df_r, df_c) ==
    LET ms == Ascending(Vessels(df_r) \cup Vessels(df_c))
    IN SortRowChange([k \in 1..Len(ms) |-> RowChangeRow(df_r, df_c, ms[k])])

----------------------------------------------------------------------------
(* p2_traj_cleaning.py: _format_diagnostics_report, the numbers of the report *)

_format_diagnostics_report(step_df, row_change_df) ==
    LET first == CHOOSE i \in 1..Len(step_df) :
                    /\ step_df[i].step = "raw_input"
                    /\ \A j \in 1..(i - 1) : step_df[j].step # "raw_input"
        total_raw == step_df[first].rows_after
        total_cleaned == step_df[Len(step_df)].rows_after
        total_removed == total_raw - total_cleaned
    IN [total_raw |-> total_raw,
        total_cleaned |-> total_cleaned,
        total_removed |-> total_removed,
        total_removed_pct |-> Pct(total_removed, total_raw),
        total_mmsi |-> Len(row_change_df),
        fully_removed_ships |->
            Cardinality({i \in 1..Len(row_change_df) : row_change_df[i].cleaned_rows = 0}),
        ships_50_removed |->
            Cardinality({i \in 1..Len(row_change_df) :
                ~FracLess(row_change_df[i].removed_ratio_pct, Frac(50, 1))}),
        ships_80_removed |->
            Cardinality({i \in 1..Len(row_change_df) :
                ~FracLess(row_change_df[i].removed_ratio_pct, Frac(80, 1))})]

----------------------------------------------------------------------------
(* p1_raw_data_inspection.py and p3_cleaned_data_inspection.py: _build_summary *)

\* df.duplicated(subset = ["mmsi", "timeUtc"]).sum(): rows repeating the key of
\* an earlier row (missing values count as equal to each other)
Duplicated(df) ==
    Cardinality({i \in 1..Len(df) :
        \E j \in 1..(i - 1) : df[j].mmsi = df[i].mmsi /\ df[j].timeUtc = df[i].timeUtc})

RECURSIVE Flatten(_)
Flatten(ss) == IF ss = <<>> THEN <<>> ELSE ss[1] \o Flatten(Tail(ss))

\* p1: the sorted table's per-vessel diffs, kept when not missing and > 0
IntervalStats(df) ==
    LET data == SortValues(df)
        ms == Ascending(Vessels(data))
        iv == Flatten([k \in 1..Len(ms) |-> PositiveIntervals(Traj(data, ms[k]))])
    IN [avg_interval_seconds |-> Frac(SeqSum(iv), Len(iv)),
        valid_interval_count |-> Len(iv)]

RawSummary(df) ==
    [rows |-> Len(df),
     unique_mmsi |-> Cardinality(Vessels(df)),
     avg_interval_seconds |-> IntervalStats(df).avg_interval_seconds,
     valid_interval_count |-> IntervalStats(df).valid_interval_count,
     duplicate_records |-> Duplicated(df)]

CleanedSummary(df) ==
    [rows |-> Len(df),
     unique_mmsi |-> Cardinality(Vessels(df)),
     duplicate_records |-> Duplicated(df)]

----------------------------------------------------------------------------
(* p2_traj_cleaning.py: the script *)

\* the stage list with the commented-out stage switched on
StepsWithBidirectional ==
    <<"basic", "tbd_drift", "bidirectional_speed_drift", "speed_anomalies">>

\* the stage list as written, bidirectional_speed_drift commented out
DefaultSteps == <<"basic", "tbd_drift", "speed_anomalies">>

RawInputRecord(initial_rows) ==
    [step |-> "raw_input",
     rows_before |-> initial_rows,
     rows_after |-> initial_rows,
     rows_removed |-> 0,
     removed_pct_of_previous |-> Frac(0, 1),
     removed_pct_of_initial |-> Frac(0, 1)]

\* StepRecord with the two row counts of the snapshot exchanged
StepRecordSwapped(step, rows_before, rows_after, initial_rows) ==
    [step |-> step,
     rows_before |-> rows_after,
     rows_after |-> rows_before,
     rows_removed |-> rows_before - rows_after,
     removed_pct_of_previous |-> Pct(rows_before - rows_after, rows_before),
     removed_pct_of_initial |-> Pct(rows_before - rows_after, initial_rows)]

StepRecord(step, rows_before, rows_after, initial_rows) ==
    [step |-> step,
     rows_before |-> rows_before,
     rows_after |-> rows_after,
     rows_removed |-> rows_before - rows_after,
     removed_pct_of_previous |-> Pct(rows_before - rows_after, rows_before),
     removed_pct_of_initial |-> Pct(rows_before - rows_after, initial_rows)]

NoReport ==
    [total_raw |-> 0, total_cleaned |-> 0, total_removed |-> 0,
     total_removed_pct |-> Frac(0, 1), total_mmsi |-> 0, fully_removed_ships |-> 0,
     ships_50_removed |-> 0, ships_80_removed |-> 0]

NoRawSummary ==
    [rows |-> 0, unique_mmsi |-> 0, avg_interval_seconds |-> Frac(0, 0),
     valid_interval_count |-> 0, duplicate_records |-> 0]

NoCleanedSummary == [rows |-> 0, unique_mmsi |-> 0, duplicate_records |-> 0]

----------------------------------------------------------------------------
(* Inputs *)

\* raw tables of several vessels, with rows without a vessel or a timestamp
MixedRows ==
    [mmsi : {NaN, 1, 2}, timeUtc : {NaT, 1, 2}, lon : {0}, lat : {0}]

\* raw tables of one vessel with missing and out-of-range coordinates
CoordRows ==
    [mmsi : {1}, timeUtc : {1, 2}, lon : {0, NoCoord, LonLimit + 1}, lat : {0}]
        \cup [mmsi : {1}, timeUtc : {1, 2}, lon : {0}, lat : {NoCoord, -LatLimit - 1}]

\* raw tables of one vessel moving: still, jitter, a plausible leg, a jump
TrajRows ==
    [mmsi : {1}, timeUtc : {1, 2, 3}, lon : {0}, lat : {0, 1, 9}]

\* the first stage applied to its own output
BasicTwice == <<"basic", "basic">>

\* stage lists: the one as written, the first stage twice, all four stages, a
\* reordering, an unknown name
StepConfigs ==
    {DefaultSteps,
     BasicTwice,
     <<"basic", "tbd_drift", "bidirectional_speed_drift", "speed_anomalies">>,
     <<"speed_anomalies", "tbd_drift">>,
     <<"basic", "speed_anomalie", "tbd_drift">>}

RowFamilies == {MixedRows, CoordRows, TrajRows}

\* a row as read, without the index the table gives it
Fields(r) == [mmsi |-> r.mmsi, timeUtc |-> r.timeUtc, lon |-> r.lon, lat |-> r.lat]

Init ==
    /\ df_raw = <<>>
    /\ steps \in StepConfigs
    /\ cleaner_data = <<>>
    /\ stage_in = <<>>
    /\ step_records = <<>>
    /\ step_i = 1
    /\ df_cleaned = <<>>
    /\ raw_interval_df = <<>>
    /\ cleaned_interval_df = <<>>
    /\ mmsi_row_change_df = <<>>
    /\ report = NoReport
    /\ raw_summary = NoRawSummary
    /\ cleaned_summary = NoCleanedSummary
    /\ pc = "read"
    /\ err = "none"

----------------------------------------------------------------------------
(* Steps *)

\* pd.read_csv in _load_raw_data: one more row of the raw file; the rows of a
\* file are of one family, and the stage lists other than the one as written
\* are run on the moving vessel
ReadRow ==
    /\ pc = "read"
    /\ Len(df_raw) < MaxRows
    /\ \E F \in RowFamilies : \E r \in F :
          /\ \A i \in 1..Len(df_raw) : Fields(df_raw[i]) \in F
          /\ steps \notin {DefaultSteps, BasicTwice} => F = TrajRows
          /\ df_raw' = Append(df_raw, [id |-> Len(df_raw) + 1, mmsi |-> r.mmsi,
                                       timeUtc |-> r.timeUtc, lon |-> r.lon,
                                       lat |-> r.lat])
    /\ UNCHANGED <<steps, cleaner_data, stage_in, step_records, step_i, df_cleaned,
                   raw_interval_df, cleaned_interval_df, mmsi_row_change_df, report,
                   raw_summary, cleaned_summary, pc, err>>

\* p1_raw_data_inspection.py, lines 93 to 97
RawInspection ==
    /\ pc = "read"
    /\ raw_summary' = RawSummary(df_raw)
    /\ pc' = "p2_load"
    /\ UNCHANGED <<df_raw, steps, cleaner_data, stage_in, step_records, step_i,
                   df_cleaned, raw_interval_df, cleaned_interval_df,
                   mmsi_row_change_df, report, cleaned_summary, err>>

\* p2 lines 156 to 181: the cleaner is built and the raw_input snapshot recorded
Construct ==
    /\ pc = "p2_load"
    /\ cleaner_data' = Partition(df_raw)
    /\ stage_in' = Partition(df_raw)
    /\ step_records' = <<RawInputRecord(Len(Partition(df_raw)))>>
    /\ step_i' = 1
    /\ pc' = "p2_loop"
    /\ UNCHANGED <<df_raw, steps, df_cleaned, raw_interval_df, cleaned_interval_df,
                   mmsi_row_change_df, report, raw_summary, cleaned_summary, err>>

\* p2 lines 183 to 201: one turn of the step loop
CleanStep ==
    /\ pc = "p2_loop"
    /\ step_i <= Len(steps)
    /\ steps[step_i] \in StageNames
    /\ LET rows_before == Len(cleaner_data)
           cleaned == Clean(steps[step_i], cleaner_data)
           rows_after == Len(cleaned)
       IN /\ stage_in' = cleaner_data
          /\ cleaner_data' = cleaned
          /\ step_records' = Append(step_records,
                 StepRecord(steps[step_i], rows_before, rows_after,
                            step_records[1].rows_before))
    /\ step_i' = step_i + 1
    /\ UNCHANGED <<df_raw, steps, df_cleaned, raw_interval_df, cleaned_interval_df,
                   mmsi_row_change_df, report, raw_summary, cleaned_summary, pc, err>>

\* p2 line 185 with a method the engine does not know: clean() raises
CleanUnknown ==
    /\ pc = "p2_loop"
    /\ step_i <= Len(steps)
    /\ steps[step_i] \notin StageNames
    /\ pc' = "failed"
    /\ err' = "ConfigurationError"
    /\ UNCHANGED <<df_raw, steps, cleaner_data, stage_in, step_records, step_i,
                   df_cleaned, raw_interval_df, cleaned_interval_df,
                   mmsi_row_change_df, report, raw_summary, cleaned_summary>>

\* p2 lines 203 to 209: the cleaned table and the diagnostics tables
Aggregate ==
    /\ pc = "p2_loop"
    /\ step_i > Len(steps)
    /\ df_cleaned' = SortValues(cleaner_data)
    /\ raw_interval_df' = _compute_interval_table(df_raw)
    /\ cleaned_interval_df' = _compute_interval_table(SortValues(cleaner_data))
    /\ mmsi_row_change_df' = _build_mmsi_row_change_table(df_raw, SortValues(cleaner_data))
    /\ pc' = "p2_report"
    /\ UNCHANGED <<df_raw, steps, cleaner_data, stage_in, step_records, step_i, report,
                   raw_summary, cleaned_summary, err>>

\* p2 lines 211 to 232: the outputs are written, the report among them
WriteReport ==
    /\ pc = "p2_report"
    /\ report' = _format_diagnostics_report(step_records, mmsi_row_change_df)
    /\ pc' = "p2_print"
    /\ UNCHANGED <<df_raw, steps, cleaner_data, stage_in, step_records, step_i,
                   df_cleaned, raw_interval_df, cleaned_interval_df,
                   mmsi_row_change_df, raw_summary, cleaned_summary, err>>

\* p2 lines 234 to 250: the closing prints
PrintSummary ==
    /\ pc = "p2_print"
    /\ Len(df_raw) # 0
    /\ pc' = "p3"
    /\ UNCHANGED <<df_raw, steps, cleaner_data, stage_in, step_records, step_i,
                   df_cleaned, raw_interval_df, cleaned_interval_df,
                   mmsi_row_change_df, report, raw_summary, cleaned_summary, err>>

\* p2 line 242: removed_rows / len(df_raw) with no row in df_raw
PrintSummaryFails ==
    /\ pc = "p2_print"
    /\ Len(df_raw) = 0
    /\ pc' = "p3"
    /\ err' = "ZeroDivisionError"
    /\ UNCHANGED <<df_raw, steps, cleaner_data, stage_in, step_records, step_i,
                   df_cleaned, raw_interval_df, cleaned_interval_df,
                   mmsi_row_change_df, report, raw_summary, cleaned_summary>>

\* p3_cleaned_data_inspection.py, lines 69 to 75, on the table p2 saved
CleanedInspection ==
    /\ pc = "p3"
    /\ cleaned_summary' = CleanedSummary(df_cleaned)
    /\ pc' = "done"
    /\ UNCHANGED <<df_raw, steps, cleaner_data, stage_in, step_records, step_i,
                   df_cleaned, raw_interval_df, cleaned_interval_df,
                   mmsi_row_change_df, report, raw_summary, err>>

Next ==
    \/ ReadRow
    \/ RawInspection
    \/ Construct
    \/ CleanStep
    \/ CleanUnknown
    \/ Aggregate
    \/ WriteReport
    \/ PrintSummary
    \/ PrintSummaryFails
    \/ CleanedInspection

Spec == Init /\ [][Next]_vars

----------------------------------------------------------------------------
(* Properties *)

\* the snapshot of the stage applied last, once a stage has been applied
LastRecord == step_records[Len(step_records)]

StageApplied(name) == Len(step_records) > 1 /\ LastRecord.step = name

\* C1: every stage the pipeline applies leaves at most as many rows as it got
\* (rows_after <= rows_before in every snapshot), the snapshot's counts are the
\* sizes of what the stage received and returned, and every row it returns is
\* one of the rows it received, unaltered.
C1_MonotonicReduction ==
    /\ \A k \in 1..Len(step_records) :
          step_records[k].rows_after <= step_records[k].rows_before
    /\ Len(step_records) > 1 =>
          /\ LastRecord.rows_before = Len(stage_in)
          /\ LastRecord.rows_after = Len(cleaner_data)
          /\ Range(cleaner_data) \subseteq Range(stage_in)
          /\ Cardinality(Ids(cleaner_data)) = Len(cleaner_data)

\* all four stages ran and the bidirectional one removed a row
C1_Witness ==
    /\ Len(step_records) = 5
    /\ step_records[4].step = "bidirectional_speed_drift"
    /\ step_records[4].rows_removed > 0

\* p2_traj_cleaning has left the step loop and built its tables
Aggregated == pc \in {"p2_report", "p2_print", "p3", "done"}

\* p2_traj_cleaning has ended, with or without an exception
P2Ended == pc \in {"p3", "done", "failed"}

StepNames == [k \in 1..Len(step_records) |-> step_records[k].step]

\* C6 (as claimed): on an input without records the run ends without an error,
\* the cleaned table is empty and the run summary has the raw_input entry and
\* one entry per configured stage, all with rows_before = rows_after = 0 and
\* removal percentages 0.
C6_EmptyInputCompletes ==
    (P2Ended /\ Len(df_raw) = 0 /\ Range(steps) \subseteq StageNames) =>
        /\ err = "none"
        /\ df_cleaned = <<>>
        /\ Len(step_records) = Len(steps) + 1
        /\ \A k \in 1..Len(step_records) :
              /\ k > 1 => step_records[k].step = steps[k - 1]
              /\ step_records[k].rows_before = 0
              /\ step_records[k].rows_after = 0
              /\ step_records[k].removed_pct_of_previous.num = 0
              /\ step_records[k].removed_pct_of_initial.num = 0

C8_StageOrder ==
    steps = DefaultSteps =>
        /\ Len(step_records) <= 4
        /\ StepNames = SubSeq(<<"raw_input", "basic", "tbd_drift", "speed_anomalies">>,
                              1, Len(step_records))
        /\ \A k \in 1..Len(step_records) :
              step_records[k].step # "bidirectional_speed_drift"
        /\ Aggregated => Len(step_records) = 4
        /\ ~Aggregated =>
              /\ raw_interval_df = <<>> /\ cleaned_interval_df = <<>>
              /\ mmsi_row_change_df = <<>> /\ report = NoReport
        /\ pc \in {"p2_print", "p3", "done"} =>
              /\ report.total_cleaned = step_records[4].rows_after
              /\ report.total_cleaned = Len(cleaner_data)

\* the default run has ended after Stage 1, Stage 2 and Stage 4 each removed a row
C8_Witness ==
    /\ steps = DefaultSteps
    /\ pc = "done"
    /\ Len(step_records) = 4
    /\ step_records[2].rows_removed + step_records[3].rows_removed
         + step_records[4].rows_removed > 0
    /\ Len(mmsi_row_change_df) > 0

StageRemovals == SumOver(2..Len(step_records), [k \in 2..Len(step_records) |->
                                                  step_records[k].rows_removed])

VesselRemovals == SumOver(1..Len(mmsi_row_change_df),
                          [k \in 1..Len(mmsi_row_change_df) |->
                              mmsi_row_change_df[k].rows_removed])

\* C9 (as claimed): rows without a vessel are in no trajectory, and their number
\* is kept as a count of its own beside the stages' rows_removed; the one
\* snapshot of the run that belongs to no stage is raw_input, so with its
\* rows_removed as that count: raw rows = cleaned rows + the stages' removals
\* + unattributable loss, and the per-vessel removals + unattributable loss
\* = all rows removed.
C9_NullVesselAccounting ==
    (Aggregated /\ Range(steps) \subseteq StageNames) =>
        LET unattributable == step_records[1].rows_removed
        IN /\ \A i \in 1..Len(df_cleaned) : df_cleaned[i].mmsi # NaN
           /\ Len(df_raw) = Len(df_cleaned) + StageRemovals + unattributable
           /\ VesselRemovals + unattributable = Len(df_raw) - Len(df_cleaned)

\* the rows of a table that share the (mmsi, timeUtc) key of row r
KeyGroup(data, r) ==
    {x \in Range(data) : x.mmsi = r.mmsi /\ x.timeUtc = r.timeUtc}

\* the row of a non-empty set of rows that came first in the input
FirstOf(rows) == CHOOSE x \in rows : \A y \in rows : x.id <= y.id

UniqueKeys(data) ==
    \A i, j \in 1..Len(data) :
        (data[i].mmsi = data[j].mmsi /\ data[i].timeUtc = data[j].timeUtc) => i = j

\* C2 (as claimed): after Stage 1 no two rows share (mmsi, timeUtc), and of
\* every group of two or more rows that shared a vessel and a timestamp exactly
\* one is left, the first in input order.
C2_FirstOfEveryKeySurvives ==
    StageApplied("basic") =>
        /\ UniqueKeys(cleaner_data)
        /\ \A r \in Range(stage_in) :
              (r.timeUtc # NaT /\ Cardinality(KeyGroup(stage_in, r)) >= 2) =>
                  KeyGroup(stage_in, r) \cap Range(cleaner_data)
                      = {FirstOf(KeyGroup(stage_in, r))}

\* C2 (amended): after Stage 1 no two rows share (mmsi, timeUtc); of every
\* group of rows that shared a key at most one is left, and when the group's
\* first row in input order has a valid timestamp and valid coordinates, that
\* row is the one left.  The cleaned table of a run that applied Stage 1 has
\* no duplicate records in p3's summary.
C2_KeyUniqueness ==
    /\ StageApplied("basic") =>
          /\ UniqueKeys(cleaner_data)
          /\ \A r \in Range(stage_in) :
                LET g == KeyGroup(stage_in, r)
                    left == g \cap Range(cleaner_data)
                IN /\ Cardinality(left) <= 1
                   /\ (ValidTime(FirstOf(g)) /\ ValidCoord(FirstOf(g)))
                         => left = {FirstOf(g)}
    /\ (pc = "done" /\ "basic" \in Range(steps)) =>
          cleaned_summary.duplicate_records = 0

\* Stage 1 got two valid rows with one key and kept the first of them
C2_Witness ==
    /\ StageApplied("basic")
    /\ \E r \in Range(stage_in) : \E q \in KeyGroup(stage_in, r) :
          /\ q.id > r.id
          /\ ValidTime(r) /\ ValidCoord(r) /\ ValidCoord(q)
          /\ r = FirstOf(KeyGroup(stage_in, r))
          /\ r \in Range(cleaner_data)
          /\ q \notin Range(cleaner_data)

\* every two fixes of the trajectory are within the jitter threshold
AllWithinJitter(t) ==
    \A i, j \in 1..Len(t) :
        ValidCoord(t[i]) /\ ValidCoord(t[j]) /\ Dist(t[i], t[j]) < JitterDist

DistinctTimes(df, m) ==
    {df[i].timeUtc : i \in {j \in 1..Len(df) : df[j].mmsi = m}} \ {NaT}

SetMax(S) == CHOOSE x \in S : \A y \in S : y <= x

SetMin(S) == CHOOSE x \in S : \A y \in S : x <= y

\* the gaps between neighbouring timestamps of a set of timestamps
Gaps(TS) ==
    {b - a : <<a, b>> \in {p \in TS \X TS :
                 p[1] < p[2] /\ ~\E c \in TS : p[1] < c /\ c < p[2]}}

\* the interval table T counts, for table df, exactly the positive steps
\* between the neighbouring valid timestamps of each vessel
IntervalTableOf(T, df) ==
    /\ \A i, j \in 1..Len(T) : T[i].mmsi = T[j].mmsi => i = j
    /\ {T[k].mmsi : k \in 1..Len(T)}
          = {m \in Vessels(df) : Cardinality(DistinctTimes(df, m)) >= 2}
    /\ \A k \in 1..Len(T) :
          LET TS == DistinctTimes(df, T[k].mmsi)
          IN /\ T[k].interval_count = Cardinality(TS) - 1
             /\ T[k].interval_count > 0
             /\ T[k].avg_interval_seconds = Frac(SetMax(TS) - SetMin(TS), Cardinality(TS) - 1)
             /\ T[k].median_interval_seconds.num >= 2 * SetMin(Gaps(TS))
             /\ T[k].median_interval_seconds.num <= 2 * SetMax(Gaps(TS))
             /\ T[k].p90_interval_seconds.num >= 10 * SetMin(Gaps(TS))
             /\ T[k].p90_interval_seconds.num <= 10 * SetMax(Gaps(TS))

\* C10: an interval is counted only between neighbouring records of one
\* vessel with valid timestamps and a strictly positive step: per vessel the
\* count is the number of distinct valid timestamps less one, the mean is their
\* span over that count, median and p90 lie between the smallest and the
\* largest step, a vessel without a positive step has no row, and rows without
\* a vessel or a timestamp add nothing; p1's summary counts the same intervals.
C10_IntervalDefinition ==
    /\ pc # "read" =>
          /\ raw_summary.valid_interval_count =
                SumOver(Vessels(df_raw),
                        [m \in Vessels(df_raw) |->
                            IF DistinctTimes(df_raw, m) = {} THEN 0
                            ELSE Cardinality(DistinctTimes(df_raw, m)) - 1])
          /\ raw_summary.avg_interval_seconds.den = raw_summary.valid_interval_count
          /\ raw_summary.avg_interval_seconds.num =
                SumOver(Vessels(df_raw),
                        [m \in Vessels(df_raw) |->
                            IF DistinctTimes(df_raw, m) = {} THEN 0
                            ELSE SetMax(DistinctTimes(df_raw, m))
                                   - SetMin(DistinctTimes(df_raw, m))])
    /\ Aggregated =>
          /\ IntervalTableOf(raw_interval_df, df_raw)
          /\ IntervalTableOf(cleaned_interval_df, df_cleaned)

\* the raw table has a vessel with a repeated timestamp and a positive step,
\* and a row without a vessel or without a timestamp, and the tables are built
C10_Witness ==
    /\ Aggregated
    /\ Len(raw_interval_df) > 0
    /\ \E i, j \in 1..Len(df_raw) :
          /\ i # j
          /\ df_raw[i].mmsi = raw_interval_df[1].mmsi
          /\ df_raw[j].mmsi = raw_interval_df[1].mmsi
          /\ df_raw[i].timeUtc = df_raw[j].timeUtc
          /\ df_raw[i].timeUtc # NaT

\* the number of rows of a table that belong to vessel m
RowsOf(df, m) == Cardinality({i \in 1..Len(df) : df[i].mmsi = m})

\* C11: the per-vessel row-change listing has exactly one row for every vessel
\* of the raw table, also for vessels without a cleaned row, with raw_rows and
\* cleaned_rows the vessel's row counts and rows_removed their difference; it
\* is ordered by rows_removed descending, ties by raw_rows descending.
C11_VesselRanking ==
    Aggregated =>
        LET T == mmsi_row_change_df
        IN /\ \A i, j \in 1..Len(T) : T[i].mmsi = T[j].mmsi => i = j
           /\ {T[k].mmsi : k \in 1..Len(T)}
                 = {df_raw[i].mmsi : i \in 1..Len(df_raw)} \ {NaN}
           /\ \A k \in 1..Len(T) :
                 /\ T[k].raw_rows = RowsOf(df_raw, T[k].mmsi)
                 /\ T[k].cleaned_rows = RowsOf(df_cleaned, T[k].mmsi)
                 /\ T[k].rows_removed = T[k].raw_rows - T[k].cleaned_rows
           /\ \A k \in 1..(Len(T) - 1) :
                 \/ T[k].rows_removed > T[k + 1].rows_removed
                 \/ /\ T[k].rows_removed = T[k + 1].rows_removed
                    /\ T[k].raw_rows >= T[k + 1].raw_rows

\* the listing has two vessels that lost equally many rows, the one with more
\* raw rows first, and the second has no cleaned row left
C11_Witness ==
    /\ Aggregated
    /\ Len(mmsi_row_change_df) = 2
    /\ mmsi_row_change_df[1].rows_removed = mmsi_row_change_df[2].rows_removed
    /\ mmsi_row_change_df[1].raw_rows > mmsi_row_change_df[2].raw_rows
    /\ mmsi_row_change_df[1].mmsi > mmsi_row_change_df[2].mmsi
    /\ mmsi_row_change_df[2].cleaned_rows = 0

\* the place of the row with index id in a table
PosIn(s, id) == CHOOSE k \in 1..Len(s) : s[k].id = id

\* the rows of t stand in the order they have in s
SameOrderAs(t, s) ==
    \A i, j \in 1..Len(t) :
        i < j => PosIn(s, t[i].id) < PosIn(s, t[j].id)

\* C12: in the cleaned output every vessel's surviving trajectory has
\* non-decreasing timestamps and its records stand in the order they have in
\* the timestamp-sorted input; every stage returns the records it keeps in the
\* order it received them.
C12_OrderPreservation ==
    /\ Len(step_records) > 1 =>
          /\ Range(cleaner_data) \subseteq Range(stage_in)
          /\ SameOrderAs(cleaner_data, stage_in)
    /\ Aggregated =>
          \A m \in Vessels(df_cleaned) :
              LET t == Traj(df_cleaned, m)
              IN /\ \A i, j \in 1..Len(t) :
                        i < j => t[i].timeUtc <= t[j].timeUtc
                 /\ Range(t) \subseteq Range(Partition(df_raw))
                 /\ SameOrderAs(t, Partition(df_raw))

\* the raw table has a vessel's later fix before its earlier one, a stage has
\* removed a record, and both fixes are in the cleaned output
C12_Witness ==
    /\ Aggregated
    /\ Len(df_raw) = 3
    /\ Len(df_cleaned) = 2
    /\ df_raw[1].mmsi = df_raw[2].mmsi
    /\ df_raw[1].timeUtc > df_raw[2].timeUtc
    /\ df_cleaned[1] = df_raw[2]
    /\ df_cleaned[2] = df_raw[1]

\* C13: the Basic Validity Filter applied to its own output removes no record:
\* Clean("basic", .) maps every table the stage has returned to itself, and a
\* pipeline entry for "basic" that directly follows one for "basic" has
\* rows_removed = 0 and leaves the table as it was.
C13_BasicIdempotent ==
    /\ StageApplied("basic") => Clean("basic", cleaner_data) = cleaner_data
    /\ \A k \in 3..Len(step_records) :
          (step_records[k].step = "basic" /\ step_records[k - 1].step = "basic") =>
              /\ step_records[k].rows_removed = 0
              /\ step_records[k].rows_after = step_records[k - 1].rows_after
              /\ k = Len(step_records) => cleaner_data = stage_in

\* the filter has run twice: the first run removed two of three records (an
\* invalid one and a repeated key), the second run none
C13_Witness ==
    /\ steps = BasicTwice
    /\ Len(step_records) = 3
    /\ step_records[2].rows_before = 3
    /\ step_records[2].rows_removed = 2
    /\ step_records[3].step = "basic"
    /\ step_records[3].rows_removed = 0
    /\ \E i \in 1..Len(df_raw) : ~ValidTime(df_raw[i]) \/ ~ValidCoord(df_raw[i])
    /\ \E i, j \in 1..Len(df_raw) :
          /\ i # j /\ ValidTime(df_raw[i]) /\ ValidCoord(df_raw[i]) /\ ValidCoord(df_raw[j])
          /\ df_raw[i].mmsi = df_raw[j].mmsi /\ df_raw[i].timeUtc = df_raw[j].timeUtc

\* the diagnostics report has been written
ReportWritten == pc \in {"p2_print", "p3", "done"}

\* C14: the recorded snapshots start with a raw_input entry with rows_before =
\* rows_after = the initial row count and rows_removed = 0; every later entry
\* has rows_before = the rows_after of the entry before it and rows_removed =
\* rows_before - rows_after; the rows_removed of all entries add up to the
\* total_removed of the diagnostics report, which is the raw_input rows_after
\* minus the last rows_after; a removal percentage of a snapshot or of the
\* report is 0 when its denominator is 0, and removed * 100 / denominator
\* otherwise.
C14_RunChaining ==
    LET R == step_records
    IN /\ Len(R) >= 1 =>
             /\ R[1].step = "raw_input"
             /\ R[1].rows_before = R[1].rows_after
             /\ R[1].rows_removed = 0
             /\ R[1].removed_pct_of_previous = Frac(0, 1)
             /\ R[1].removed_pct_of_initial = Frac(0, 1)
             /\ R[Len(R)].rows_after = Len(cleaner_data)
       /\ \A k \in 2..Len(R) :
             /\ R[k].step = steps[k - 1]
             /\ R[k].rows_before = R[k - 1].rows_after
             /\ R[k].rows_removed = R[k].rows_before - R[k].rows_after
             /\ R[k].removed_pct_of_previous =
                   IF R[k].rows_before = 0 THEN Frac(0, 1)
                   ELSE Frac(R[k].rows_removed * 100, R[k].rows_before)
             /\ R[k].removed_pct_of_initial =
                   IF R[1].rows_before = 0 THEN Frac(0, 1)
                   ELSE Frac(R[k].rows_removed * 100, R[1].rows_before)
       /\ ReportWritten =>
             /\ report.total_removed =
                   SumOver(1..Len(R), [k \in 1..Len(R) |-> R[k].rows_removed])
             /\ report.total_removed = R[1].rows_after - R[Len(R)].rows_after
             /\ report.total_removed_pct =
                   IF R[1].rows_after = 0 THEN Frac(0, 1)
                   ELSE Frac(report.total_removed * 100, R[1].rows_after)

\* the report is written on a run whose first stage removed all three
\* records, so that the later entries have rows_before = 0
C14_Witness ==
    /\ ReportWritten
    /\ Len(step_records) = 4
    /\ step_records[1].rows_after = 3
    /\ step_records[2].rows_removed = 3
    /\ step_records[3].rows_before = 0
    /\ step_records[4].removed_pct_of_previous = Frac(0, 1)
    /\ report.total_removed = 3

====
